---- MODULE Spec2Model ----
(***************************************************************************)
(* Model of sender_for_rpi.ino: the main loop of an ESP32 sketch that      *)
(* polls the soft-AP station list every POLL_INTERVAL ms, polls an MFRC522 *)
(* card reader every iteration, and prints one line per event on Serial.   *)
(***************************************************************************)
EXTENDS Integers, Sequences, FiniteSets, TLC

\* ---------------------------------------------------------------- bounds
MaxIter == 3          \* loop iterations explored
MaxSta == 2           \* entries the driver's station table may hold
MillisBits == 12      \* modelled width of unsigned long (32 on the ESP32)
LongLag == 1990       \* longest overshoot of the loop's delay(10)
SendTime == 1         \* milliseconds Serial takes to take over one line
WrapLead == 100       \* how far before the wrap of the counter InitWrap starts

\* ------------------------------------------------------ program constants
POLL_INTERVAL == 2000
SetupDelay == 100
SettleDelay == 200
YieldDelay == 10
HexPad == 16

MillisMod == 2 ^ MillisBits

\* 6-byte hardware addresses of the peers that may associate
PeerA == <<222, 173, 190, 239, 0, 1>>
PeerB == <<2, 10, 255, 16, 9, 171>>
Peers == {PeerA, PeerB}

\* identifiers of the cards presented to the reader
Cards == {<<4, 171>>}

Lags == {0, LongLag}

VARIABLES
  clock,          \* milliseconds since boot (unwrapped)
  now,            \* loop(): local 'now'
  lastPoll,       \* global lastPoll
  prevStations,   \* global prevStations
  pc,             \* position of the single thread of control
  iter,           \* number of the running loop iteration
  out,            \* lines written to Serial in the running iteration
  info,           \* for each line of out: its source and time of writing
  carry,          \* the last record written in an earlier iteration
  detected,       \* events detected in the running iteration
  lastTwo,        \* per mac: the last two wifi_event records written
  tickPrev,       \* prevStations when the running iteration's poll began
  tickDone,       \* the running iteration has completed a station poll
  snapshot,       \* result of the latest query of the radio driver
  prevErr,        \* the query before the latest one failed
  prevList,       \* what the query before the running iteration's poll gave
  cardUid,        \* reader: identifier of the card in the field, <<>> if none
  cardHalted,     \* reader: the card in the field is in the HALT state
  presReads,      \* rfid records written for the current card presentation
  startAt,        \* value of clock when 'now' was read
  pollAt,         \* value of clock that lastPoll was read from
  pollBefore,     \* pollAt when the running iteration began
  cardResult      \* what the card branch of the running iteration found

vars == <<clock, now, lastPoll, prevStations, pc, iter, out,
          info, carry, detected, lastTwo, tickPrev, tickDone, snapshot,
          prevErr, prevList, cardUid, cardHalted, presReads, startAt, pollAt,
          pollBefore, cardResult>>

progVars == <<now, lastPoll, prevStations, pc, iter>>
hostVars == <<out, info, carry, detected, lastTwo>>
tickVars == <<tickPrev, tickDone, snapshot, prevErr, prevList>>
cardVars == <<cardUid, cardHalted, presReads>>
timeVars == <<startAt, pollAt, pollBefore>>

\* ------------------------------------------------------------- helpers
Range(s) == {s[i] : i \in 1..Len(s)}

SeqsUpTo(S, n) == UNION {[1..k -> S] : k \in 0..n}

\* millis() at time t: the millisecond counter, an unsigned long
Millis(t) == t % MillisMod

\* variant: the difference is taken over the integers
USubSigned(a, b) == a - b

\* unsigned subtraction now - lastPoll
USub(a, b) == (a - b + MillisMod) % MillisMod

HexDigits == <<"0", "1", "2", "3", "4", "5", "6", "7",
               "8", "9", "A", "B", "C", "D", "E", "F">>

\* sprintf(buf, "%02X", b)
Hex02X(b) == <<HexDigits[(b \div 16) + 1], HexDigits[(b % 16) + 1]>>

\* sprintf(buf, "%02X:%02X:%02X:%02X:%02X:%02X", mac[0..5])
macToString(mac) ==
  Hex02X(mac[1]) \o <<":">> \o Hex02X(mac[2]) \o <<":">> \o
  Hex02X(mac[3]) \o <<":">> \o Hex02X(mac[4]) \o <<":">> \o
  Hex02X(mac[5]) \o <<":">> \o Hex02X(mac[6])

\* loop(): the body of the for over uid.uidByte
UidChunk(b) == (IF b < HexPad THEN <<"0">> ELSE <<>>) \o Hex02X(b)

RECURSIVE UidString(_)
UidString(bytes) ==
  IF bytes = <<>> THEN <<>>
  ELSE UidChunk(Head(bytes)) \o UidString(Tail(bytes))

\* variant: the search looks at the first element only
FoundFirstOnly(list, mac) == list /= <<>> /\ list[1] = mac

\* the inner loops of handleStationChanges: is mac an element of list
Found(list, mac) == \E i \in 1..Len(list) : list[i] = mac

\* macToString, tabulated for the peers
MacOf == [p \in Peers |-> macToString(p)]

\* the station tables esp_wifi_ap_get_sta_list may fill in
StaLists == SeqsUpTo(Peers, MaxSta)

\* variant: the result of esp_wifi_ap_get_sta_list is not looked at
getConnectedStationMACsUnchecked(err, staList) ==
  [i \in 1..Len(staList) |-> MacOf[staList[i]]]

\* getConnectedStationMACs(): err is TRUE when esp_wifi_ap_get_sta_list fails
getConnectedStationMACs(err, staList) ==
  IF err THEN <<>>
  ELSE [i \in 1..Len(staList) |-> MacOf[staList[i]]]

\* variant: the record is stamped with the time of the last poll
WifiDocStale(event, mac, t) ==
  [type |-> "wifi_event", event |-> event, mac |-> mac, ts |-> lastPoll]

\* the documents built by handleStationChanges and loop
WifiDoc(event, mac, t) ==
  [type |-> "wifi_event", event |-> event, mac |-> mac, ts |-> Millis(t)]

RfidDoc(uidString, t) == [type |-> "rfid", uid |-> uidString, ts |-> Millis(t)]

\* sendJson(doc): one line holding the serialized document
JsonLine(doc) == [kind |-> "json", doc |-> doc]

IsJson(line) == line.kind = "json"

\* Serial.print("RFID read: "); Serial.println(uidString)
TextLine(uidString) == [kind |-> "text", text |-> <<"RFID read: ">> \o uidString]

\* sendJson(doc): what the caller gets back; up is FALSE when Serial.println
\* could not write the line
sendJsonResult(up) == "void"

\* what is remembered about a line: its source, the iteration and the time
\* of writing, the identifier bytes a card line was built from, whether
\* Serial took the line and what the caller of sendJson got back
Stamp(src, t, bytes, up) ==
  [src |-> src, iter |-> iter, at |-> t, bytes |-> bytes, up |-> up,
   ret |-> sendJsonResult(up)]

NoRecord == [ts |-> 0, at |-> 0, iter |-> 0]

RECURSIVE LastRecord(_, _, _)
LastRecord(lines, stamps, dflt) ==
  IF lines = <<>> THEN dflt
  ELSE IF IsJson(lines[Len(lines)])
         THEN [ts |-> lines[Len(lines)].doc.ts, at |-> stamps[Len(lines)].at,
               iter |-> stamps[Len(lines)].iter]
         ELSE LastRecord(SubSeq(lines, 1, Len(lines) - 1),
                         SubSeq(stamps, 1, Len(lines) - 1), dflt)

MacStrings == {MacOf[p] : p \in Peers}

\* per mac, remember the event just written and the one before it
Shift(two, mac, event) == [two EXCEPT ![mac] = <<two[mac][2], event>>]

RECURSIVE ShiftAll(_, _, _)
ShiftAll(two, macs, event) ==
  IF macs = <<>> THEN two
  ELSE ShiftAll(Shift(two, Head(macs), event), Tail(macs), event)

\* variant: every entry of list is taken, found in other or not
NotFoundInAll(list, other) == list

\* handleStationChanges(): the entries of list, in order, that the inner
\* loop does not find in other
RECURSIVE NotFoundIn(_, _)
NotFoundIn(list, other) ==
  IF list = <<>> THEN <<>>
  ELSE (IF Found(other, Head(list)) THEN <<>> ELSE <<Head(list)>>)
         \o NotFoundIn(Tail(list), other)

\* the lines sendJson writes for these macs, the first one at time t
Sent(event, macs, t) ==
  [k \in 1..Len(macs) |-> JsonLine(WifiDoc(event, macs[k], t + (k - 1) * SendTime))]

SentStamps(macs, t, up) ==
  [k \in 1..Len(macs) |-> Stamp("tick", t + (k - 1) * SendTime, <<>>, up)]

\* variant: the card is polled before the stations
StagesCardFirst == <<"card", "stations", "yield">>

\* loop(): the order of the stages of one iteration
Stages == <<"stations", "card", "yield">>

StageAfter(p) == Stages[(CHOOSE k \in 1..Len(Stages) : Stages[k] = p) + 1]

\* variant: the stored list is left as it was
StoredStationsKept(prev, cur) == prev

\* variant: the snapshot is added to the stored list
StoredStationsMerged(prev, cur) == prev \o cur

\* prevStations = current
StoredStations(prev, cur) == cur

\* variant: the card is left as it is
HaltANoEffect(halted) == halted

\* PICC_HaltA(): the selected card enters the HALT state
HaltA(halted) == TRUE


\* variant: the loop goes on right after the halt command
SettleSkipped(t) == t

\* loop(): delay(200) after PICC_HaltA()
Settle(t) == t + SettleDelay

NoSnapshot == [err |-> FALSE, list |-> <<>>]

\* ---------------------------------------------------------------- Init
Init ==
  /\ clock = SetupDelay
  /\ now = 0
  /\ lastPoll = Millis(SetupDelay)
  /\ prevStations = <<>>
  /\ pc = "start"
  /\ iter = 1
  /\ out = <<>>
  /\ info = <<>>
  /\ carry = NoRecord
  /\ detected = 0
  /\ lastTwo = [m \in MacStrings |-> <<"none", "none">>]
  /\ tickPrev = <<>>
  /\ tickDone = FALSE
  /\ snapshot = NoSnapshot
  /\ prevErr = FALSE
  /\ prevList = <<>>
  /\ cardUid = <<>>
  /\ cardHalted = FALSE
  /\ presReads = 0
  /\ startAt = SetupDelay
  /\ pollAt = SetupDelay
  /\ pollBefore = SetupDelay
  /\ cardResult = "none"

\* ------------------------------------------------------------- program
\* loop(): now = millis()
LoopStart ==
  /\ pc = "start"
  /\ iter <= MaxIter
  /\ now' = Millis(clock)
  /\ pc' = Stages[1]
  /\ startAt' = clock
  /\ pollBefore' = pollAt
  /\ UNCHANGED <<clock, lastPoll, prevStations, iter, hostVars, tickVars,
                 cardVars, pollAt, cardResult>>

\* variant: the poll is put off while a card lies in the field
DueUnlessCard == USub(now, lastPoll) >= POLL_INTERVAL /\ cardUid = <<>>

\* variant: the poll runs again as soon as the loop has come round
DueEarly == USub(now, lastPoll) >= YieldDelay

\* variant: the poll waits for more than the interval
DueStrict == USub(now, lastPoll) > POLL_INTERVAL

\* loop(): now - lastPoll >= POLL_INTERVAL
Due == USub(now, lastPoll) >= POLL_INTERVAL

\* loop(): the poll is due: handleStationChanges(); lastPoll = now
HandleStationChanges ==
  /\ pc = "stations"
  /\ Due
  /\ \E err \in BOOLEAN, staList \in StaLists :
       LET cur == getConnectedStationMACs(err, staList)
           joined == NotFoundIn(cur, prevStations)
           left == NotFoundIn(prevStations, cur)
           t == clock + Len(joined) * SendTime
       \* Serial takes the lines of this call or not; what a failed query
       \* leaves in sta_list is never read, one stale entry stands for it
       IN \E up \in (IF joined \o left = <<>> THEN {TRUE} ELSE BOOLEAN) :
          /\ err => Len(staList) <= 1
          /\ out' = out \o Sent("connected", joined, clock)
                        \o Sent("disconnected", left, t)
          /\ info' = info \o SentStamps(joined, clock, up)
                          \o SentStamps(left, t, up)
          /\ detected' = detected + Len(joined) + Len(left)
          /\ lastTwo' = ShiftAll(ShiftAll(lastTwo, joined, "connected"),
                                 left, "disconnected")
          /\ clock' = t + Len(left) * SendTime
          /\ prevStations' = StoredStations(prevStations, cur)
          /\ snapshot' = [err |-> err, list |-> cur]
  /\ lastPoll' = now
  /\ pollAt' = startAt
  /\ tickPrev' = prevStations
  /\ tickDone' = TRUE
  /\ prevErr' = snapshot.err
  /\ prevList' = snapshot.list
  /\ pc' = StageAfter("stations")
  /\ UNCHANGED <<now, iter, carry, cardVars, startAt, pollBefore, cardResult>>

\* loop(): the poll is not due
SkipStations ==
  /\ pc = "stations"
  /\ ~Due
  /\ pc' = StageAfter("stations")
  /\ UNCHANGED <<clock, now, lastPoll, prevStations, iter, hostVars, tickVars,
                 cardVars, timeVars, cardResult>>

\* variant: the answer of PICC_ReadCardSerial() is not looked at
CardReadUnchecked(present, readOk) == present

\* loop(): PICC_IsNewCardPresent() && PICC_ReadCardSerial()
CardRead(present, readOk) == present /\ readOk

\* loop(): the card branch
CardPoll ==
  /\ pc = "card"
  /\ pc' = StageAfter("card")
  /\ \E present \in BOOLEAN, readOk \in BOOLEAN :
       \* PICC_IsNewCardPresent() is answered only by a card that is not halted
       /\ present => (cardUid /= <<>> /\ ~cardHalted)
       \* && does not call PICC_ReadCardSerial() when no card is present
       /\ readOk => present
       /\ cardResult' = IF ~present THEN "absent"
                        ELSE IF ~readOk THEN "unreadable" ELSE "read"
       /\ IF CardRead(present, readOk)
            THEN \E up \in BOOLEAN :
                 /\ out' = out \o <<JsonLine(RfidDoc(UidString(cardUid), clock)),
                                    TextLine(UidString(cardUid))>>
                 /\ info' = info \o <<Stamp("card", clock, cardUid, up),
                                      Stamp("card", clock + SendTime, cardUid, up)>>
                 /\ detected' = detected + 1
                 /\ cardHalted' = HaltA(cardHalted)
                 /\ clock' = Settle(clock + 2 * SendTime)
                 /\ presReads' = presReads + 1
            ELSE UNCHANGED <<out, info, detected, cardHalted, clock, presReads>>
  /\ UNCHANGED <<now, lastPoll, prevStations, iter, carry, lastTwo, tickVars,
                 cardUid, timeVars>>

\* loop(): delay(10), then loop() returns and is called again; what was
\* noted about the iteration is folded into carry
Yield ==
  /\ pc = "yield"
  /\ \E lag \in Lags : /\ clock' = clock + YieldDelay + lag
                        /\ startAt' = clock + YieldDelay + lag
  /\ iter' = iter + 1
  /\ pc' = "start"
  /\ now' = 0
  /\ out' = <<>>
  /\ info' = <<>>
  /\ carry' = LastRecord(out, info, carry)
  /\ detected' = 0
  /\ tickPrev' = <<>>
  /\ tickDone' = FALSE
  /\ prevList' = <<>>
  /\ pollBefore' = pollAt
  /\ cardResult' = "none"
  /\ UNCHANGED <<lastPoll, prevStations, lastTwo, snapshot, prevErr,
                 cardVars, pollAt>>

\* --------------------------------------------------------- environment
\* The reader is looked at once per iteration, in the card branch; what
\* happens in the field in between is interleaved between two iterations.
\* a card is brought into the field of the reader
CardEnter ==
  /\ pc = "start"
  /\ iter <= MaxIter
  /\ cardUid = <<>>
  /\ \E u \in Cards : cardUid' = u
  /\ cardHalted' = FALSE
  /\ presReads' = 0
  /\ UNCHANGED <<clock, progVars, hostVars, tickVars, timeVars, cardResult>>

\* the card is taken out of the field
CardLeave ==
  /\ pc = "start"
  /\ iter <= MaxIter
  /\ cardUid /= <<>>
  /\ cardUid' = <<>>
  /\ cardHalted' = FALSE
  /\ presReads' = 0
  /\ UNCHANGED <<clock, progVars, hostVars, tickVars, timeVars, cardResult>>

Next ==
  \/ LoopStart
  \/ HandleStationChanges
  \/ SkipStations
  \/ CardPoll
  \/ Yield
  \/ CardEnter
  \/ CardLeave

Spec == Init /\ [][Next]_vars

\* loop() after a long run: the counter is WrapLead short of wrapping, the
\* last poll has just run and found PeerA, the one peer stored before it
InitWrap ==
  /\ clock = MillisMod - WrapLead
  /\ now = 0
  /\ lastPoll = Millis(MillisMod - WrapLead)
  /\ prevStations = <<MacOf[PeerA]>>
  /\ pc = "start"
  /\ iter = 1
  /\ out = <<>>
  /\ info = <<>>
  /\ carry = NoRecord
  /\ detected = 0
  /\ lastTwo = [m \in MacStrings |->
                  IF m = MacOf[PeerA] THEN <<"none", "connected">>
                  ELSE <<"none", "none">>]
  /\ tickPrev = <<>>
  /\ tickDone = FALSE
  /\ snapshot = [err |-> FALSE, list |-> <<MacOf[PeerA]>>]
  /\ prevErr = FALSE
  /\ prevList = <<>>
  /\ cardUid = <<>>
  /\ cardHalted = FALSE
  /\ presReads = 0
  /\ startAt = MillisMod - WrapLead
  /\ pollAt = MillisMod - WrapLead
  /\ pollBefore = MillisMod - WrapLead
  /\ cardResult = "none"

SpecWrap == InitWrap /\ [][Next]_vars

\* the steps of loop(); the single thread of control takes its next step
\* whatever the reader's field does
LoopStep ==
  \/ LoopStart
  \/ HandleStationChanges
  \/ SkipStations
  \/ CardPoll
  \/ Yield

SpecFair == Spec /\ WF_vars(LoopStep)

\* the longest one iteration takes: the lines of a poll and of a card read,
\* delay(200), delay(10) and the longest lag
MaxIterationTime ==
  (2 * MaxSta + 2) * SendTime + SettleDelay + YieldDelay + LongLag

\* ------------------------------------------------------------ properties
Lines == 1..Len(out)

WifiLines == {i \in Lines : IsJson(out[i]) /\ out[i].doc.type = "wifi_event"}

RfidLines == {i \in Lines : IsJson(out[i]) /\ out[i].doc.type = "rfid"}

\* macs for which the running iteration wrote a record with this event
EventMacs(event) == {out[i].doc.mac : i \in {j \in WifiLines : out[j].doc.event = event}}

\* number of records the running iteration wrote for one mac and event
EventCount(event, mac) ==
  Cardinality({i \in WifiLines : out[i].doc.event = event /\ out[i].doc.mac = mac})

\* the records of the running iteration, after the last one written before it
RECURSIVE RecordsOf(_, _)
RecordsOf(lines, stamps) ==
  IF lines = <<>> THEN <<>>
  ELSE (IF IsJson(Head(lines))
          THEN <<[ts |-> Head(lines).doc.ts, at |-> Head(stamps).at,
                  iter |-> Head(stamps).iter]>>
          ELSE <<>>) \o RecordsOf(Tail(lines), Tail(stamps))

Records == <<carry>> \o RecordsOf(out, info)

Epoch(r) == r.at \div MillisMod

\* C1: after a station poll with previous list P and snapshot C, the peers
\* with a 'connected' record of this poll are exactly C minus P and the peers
\* with a 'disconnected' record are exactly P minus C.
C1_SymmetricDifference ==
  tickDone =>
    /\ EventMacs("connected") = Range(snapshot.list) \ Range(tickPrev)
    /\ EventMacs("disconnected") = Range(tickPrev) \ Range(snapshot.list)

C1_Witness ==
  /\ tickDone
  /\ EventMacs("disconnected") /= {}
  /\ Range(tickPrev) \cap Range(snapshot.list) /= {}
  /\ Cardinality(WifiLines) = 1

\* C2: per mac, the 'connected' and 'disconnected' records alternate,
\* starting with 'connected'.
C2_Alternation ==
  \A m \in MacStrings :
    /\ lastTwo[m][2] /= "none" => lastTwo[m][1] /= lastTwo[m][2]
    /\ lastTwo[m][1] = "none" => lastTwo[m][2] \in {"none", "connected"}

\* C3: between the polls the stored list holds, as a set, exactly the latest
\* snapshot of the radio driver (the empty one before the first poll).
C3_StoredIsSnapshot == Range(prevStations) = Range(snapshot.list)

C3_Witness ==
  /\ tickDone
  /\ prevStations /= <<>>
  /\ Range(tickPrev) \ Range(prevStations) /= {}

\* C4: one card presentation yields at most one rfid record, however many
\* polls the card stays in the field for.
C4_OneRecordPerPresentation == presReads <= 1

C4_Witness ==
  /\ cardUid /= <<>>
  /\ cardHalted
  /\ presReads = 1
  /\ pc = "yield"
  /\ RfidLines = {}

\* C5: all lines of an iteration's station poll are written before the lines
\* of its card read, and nothing of an earlier iteration follows them.
C5_TickBeforeCard ==
  /\ \A i, j \in Lines : (info[i].src = "card" /\ info[j].src = "tick") => j < i
  /\ \A i, j \in Lines : i < j => info[i].iter <= info[j].iter
  /\ \A i \in Lines : carry.iter < info[i].iter

C5_Witness ==
  /\ Cardinality(WifiLines) = 2
  /\ RfidLines /= {}
  /\ carry.iter > 0

C7_FailureIsEmptySnapshot ==
  /\ (tickDone /\ snapshot.err) =>
       /\ prevStations = <<>>
       /\ EventMacs("disconnected") = Range(tickPrev)
       /\ EventMacs("connected") = {}
  /\ (tickDone /\ prevErr /\ ~snapshot.err) =>
       EventMacs("connected") = Range(snapshot.list)

C7_Witness ==
  /\ tickDone
  /\ prevErr
  /\ ~snapshot.err
  /\ \E m \in EventMacs("connected") : lastTwo[m] = <<"disconnected", "connected">>

\* C8: every line on Serial is a wifi_event or rfid record, one per event.
C8_OneCanonicalLinePerEvent ==
  /\ \A i \in Lines : IsJson(out[i]) /\ out[i].doc.type \in {"wifi_event", "rfid"}
  /\ Len(out) = detected

\* C9: the uid of an rfid record has two characters per identifier byte, the
\* high and the low hexadecimal digit of that byte.
C9_UidIsTwoDigitsPerByte ==
  \A i \in RfidLines :
    LET uid == out[i].doc.uid
        bytes == info[i].bytes
    IN /\ Len(uid) = 2 * Len(bytes)
       /\ \A k \in 1..Len(bytes) :
            /\ uid[2 * k - 1] = HexDigits[(bytes[k] \div 16) + 1]
            /\ uid[2 * k] = HexDigits[(bytes[k] % 16) + 1]

\* C10: a peer the driver lists more than once gets one 'connected' record
\* when it appears and one 'disconnected' record when it disappears.
C10_DuplicatesReportedOnce ==
  \A m \in MacStrings :
    /\ EventCount("connected", m) <= 1
    /\ EventCount("disconnected", m) <= 1

\* C11: a record Serial could not take is reported to the caller of sendJson,
\* and the poll stores the snapshot and the tick time all the same.
C11_WriteFailureReported ==
  /\ \A i \in Lines : (IsJson(out[i]) /\ ~info[i].up) => info[i].ret = "error"
  /\ tickDone => (prevStations = snapshot.list /\ lastPoll = now)

\* C12: the poll runs in an iteration exactly when the clock read at its
\* start is at least POLL_INTERVAL past the stored tick time, and then
\* lastPoll takes that reading: consecutive polls start at least
\* POLL_INTERVAL apart, the first at least POLL_INTERVAL after setup.
C12_PollEveryInterval ==
  /\ pc \in {"card", "yield"} =>
       (tickDone <=> startAt - pollBefore >= POLL_INTERVAL)
  /\ tickDone => /\ lastPoll = Millis(startAt)
                 /\ pollAt = startAt
                 /\ pollAt - pollBefore >= POLL_INTERVAL
                 /\ startAt >= SetupDelay + POLL_INTERVAL
  /\ ~tickDone => (pollAt = pollBefore /\ lastPoll = Millis(pollAt))

\* the second poll runs exactly POLL_INTERVAL after the first
C12_Witness ==
  /\ tickDone
  /\ pollBefore > SetupDelay
  /\ startAt - pollBefore = POLL_INTERVAL

\* C13: a successful read is followed in its iteration, after the rfid
\* record, by the halt command and a wait of SettleDelay, so the next look
\* at the reader comes at least SettleDelay after the read; a card is only
\* halted by a successful read.
C13_HaltAndSettleAfterRead ==
  /\ \A i \in RfidLines :
       /\ cardResult = "read"
       /\ pc = "yield" => clock - info[i].at >= SettleDelay
  /\ (cardResult = "read" /\ presReads > 0) => cardHalted
  /\ cardHalted => presReads > 0

C13_Witness ==
  /\ pc = "yield"
  /\ cardResult = "read"
  /\ cardHalted
  /\ RfidLines /= {}

\* C14: a look at the reader that finds no card, or a card whose serial
\* cannot be read, writes nothing, halts nothing, waits for nothing and
\* leaves the stored state alone; the loop goes on to its next iteration.
C14_FailedReadChangesNothing ==
  [][(pc = "card" /\ cardResult' \in {"absent", "unreadable"}) =>
       /\ out' = out
       /\ clock' = clock
       /\ cardHalted' = cardHalted
       /\ presReads' = presReads
       /\ prevStations' = prevStations
       /\ lastPoll' = lastPoll
       /\ pc' = "yield"]_vars

C14_Witness ==
  /\ cardResult = "unreadable"
  /\ cardUid /= <<>>
  /\ ~cardHalted
  /\ RfidLines = {}

\* C15: a peer that is in both of two consecutive snapshots, or in neither,
\* whatever it did in between, gets no wifi_event record from the later poll.
C15_NoRecordForSameMembership ==
  tickDone =>
    \A m \in MacStrings :
      ((m \in Range(prevList)) <=> (m \in Range(snapshot.list))) =>
         \A i \in WifiLines : out[i].doc.mac /= m

\* one peer stayed and got no record while another one left
C15_Witness ==
  /\ tickDone
  /\ WifiLines /= {}
  /\ \E m \in Range(prevList) \cap Range(snapshot.list) :
       \A i \in WifiLines : out[i].doc.mac /= m

\* C16: the peers whose latest wifi_event record says 'connected' are the
\* peers of prevStations, which starts empty, so the first poll writes
\* 'connected' for every peer of its snapshot.
C16_ConnectedAreStored ==
  /\ {m \in MacStrings : lastTwo[m][2] = "connected"} = Range(prevStations)
  /\ (pollAt = SetupDelay) => prevStations = <<>>
  /\ (tickDone /\ pollBefore = SetupDelay) =>
       EventMacs("connected") = Range(snapshot.list)

\* one peer has come and gone again while the other one is still stored
C16_Witness ==
  /\ \E m \in MacStrings : lastTwo[m] = <<"connected", "disconnected">>
  /\ \E m \in Range(prevStations) : lastTwo[m][2] = "connected"

\* C17: in an iteration whose poll is not due no step changes prevStations
\* or lastPoll or writes a wifi_event record, whatever the card branch
\* does; the card branch never changes them in any iteration.
C17_NoTickNoChange ==
  [][(pc /= "stations" \/ startAt - pollBefore < POLL_INTERVAL) =>
       /\ prevStations' = prevStations
       /\ lastPoll' = lastPoll
       /\ WifiLines' \subseteq WifiLines]_vars

\* a card was read in an iteration without a poll, with a peer stored
C17_Witness ==
  /\ pc = "yield"
  /\ ~tickDone
  /\ cardResult = "read"
  /\ prevStations /= <<>>
  /\ WifiLines = {}

C19_DueAcrossWrap ==
  (pc \in {"card", "yield"} /\ pollBefore < MillisMod
                            /\ startAt >= MillisMod) =>
     /\ tickDone <=> startAt - pollBefore >= POLL_INTERVAL
     /\ USub(Millis(startAt), Millis(pollBefore)) = startAt - pollBefore
     /\ tickDone => lastPoll = Millis(startAt)

\* the iteration before read the counter after the wrap and did not poll;
\* this one, POLL_INTERVAL past the stored tick, does
C19_Witness ==
  /\ tickDone
  /\ pollBefore < MillisMod
  /\ carry.iter = iter - 1
  /\ carry.at >= MillisMod
  /\ now < Millis(pollBefore)

====
